---------------------------- MODULE Spec2Model ----------------------------
(***************************************************************************)
(* Model of hostingdeProvider.Configure (src/hostingde/provider.go): the   *)
(* resolution of account id, auth token and base URL from the declarative  *)
(* configuration and the process environment, the diagnostics it reports,  *)
(* the log records it emits and the client it publishes.                   *)
(*                                                                         *)
(* One invocation of Configure runs through the program points             *)
(*   idle -> get -> guard -> resolve -> validate -> log -> client -> done  *)
(* and every early return of the code jumps to done.                       *)
(***************************************************************************)
EXTENDS Naturals, Sequences, FiniteSets, TLC

VARIABLES
    pc,             \* position inside Configure
    req,            \* provider.ConfigureRequest: the raw configuration
    env,            \* the process environment read by os.Getenv
    config,         \* var config hostingdeProviderModel
    resp,           \* *provider.ConfigureResponse
    account_id,     \* local account_id
    auth_token,     \* local auth_token
    base_url,       \* local base_url
    ctx,            \* the logging context: fields set and field keys masked
    logs,           \* log records emitted by the current invocation
    newClientCalls, \* arguments of the NewClient calls of the current invocation
    first           \* the first completed invocation of the run (SpecRepeat)

vars == <<pc, req, env, config, resp, account_id, auth_token, base_url,
          ctx, logs, newClientCalls, first>>

---------------------------------------------------------------------------
(* Constants of the program *)

defaultBaseURL == "https://secure.hosting.de/api/dns/v1/json"

ENV_ACCOUNT_ID == "HOSTINGDE_ACCOUNT_ID"
ENV_AUTH_TOKEN == "HOSTINGDE_AUTH_TOKEN"
ENV_BASE_URL   == "HOSTINGDE_BASE_URL"
EnvNames == {ENV_ACCOUNT_ID, ENV_AUTH_TOKEN, ENV_BASE_URL}

---------------------------------------------------------------------------
(* types.String: a value that is null, unknown or known *)

StringNull == [state |-> "null", value |-> ""]
StringUnknown == [state |-> "unknown", value |-> ""]
StringValue(s) == [state |-> "known", value |-> s]

IsNull(v) == v.state = "null"
IsUnknown(v) == v.state = "unknown"
\* ValueString returns the known value, and "" for a null or unknown one
ValueString(v) == IF v.state = "known" THEN v.value ELSE ""

\* var config hostingdeProviderModel: the zero value, every field null
ZeroModel == [AccountId |-> StringNull, AuthToken |-> StringNull, BaseUrl |-> StringNull]

---------------------------------------------------------------------------
(* The inputs of an invocation *)

\* the raw configuration of a request: the three attributes, and whether
\* Config.Get can convert it into hostingdeProviderModel
RawConfig(ok, a, t, b) ==
    [decodable |-> ok, AccountId |-> a, AuthToken |-> t, BaseUrl |-> b]

\* the configurations whose attributes are drawn from A, T and B, and the
\* one Config.Get cannot convert
ConfigsOver(A, T, B) ==
    {RawConfig(TRUE, a, t, b) : a \in A, t \in T, b \in B}
        \cup {RawConfig(FALSE, StringNull, StringNull, StringNull)}

\* an environment variable is unset, or set to a (possibly empty) string
EnvUnset == [set |-> FALSE, value |-> ""]
EnvSet(s) == [set |-> TRUE, value |-> s]

EnvsOver(A, T, B) ==
    {[n \in EnvNames |->
        CASE n = ENV_ACCOUNT_ID -> a
          [] n = ENV_AUTH_TOKEN -> t
          [] OTHER -> b] : a \in A, t \in T, b \in B}

\* the inputs of Spec: every attribute null, unknown, empty or set; every
\* variable unset, empty or set
Configs ==
    ConfigsOver({StringNull, StringUnknown, StringValue(""), StringValue("acc1")},
                {StringNull, StringUnknown, StringValue(""), StringValue("tok1")},
                {StringNull, StringUnknown, StringValue(""),
                 StringValue("https://cfg.example/api")})
Envs ==
    EnvsOver({EnvUnset, EnvSet(""), EnvSet("acc2")},
             {EnvUnset, EnvSet(""), EnvSet("tok2")},
             {EnvUnset, EnvSet(""), EnvSet("https://env.example/api")})

\* the inputs of SpecRepeat, which compares two invocations of one run
RepeatConfigs ==
    ConfigsOver({StringNull, StringUnknown, StringValue("acc1")},
                {StringNull, StringUnknown, StringValue(""), StringValue("tok1")},
                {StringNull, StringUnknown, StringValue("https://cfg.example/api")})
RepeatEnvs ==
    EnvsOver({EnvSet("acc2")},
             {EnvUnset, EnvSet("tok2")},
             {EnvUnset, EnvSet("https://env.example/api")})

\* os.Getenv: the value of the variable, "" when it is not set
Getenv(e, name) == IF e[name].set THEN e[name].value ELSE ""

---------------------------------------------------------------------------
(* Diagnostics *)

AttributeError(p, summary, detail) ==
    [severity |-> "error", path |-> p, summary |-> summary, detail |-> detail]

\* what Config.Get reports for a configuration it cannot convert
GetDiags(raw) ==
    IF raw.decodable THEN <<>>
    ELSE <<[severity |-> "error", path |-> "", summary |-> "Value Conversion Error",
            detail |-> "An unexpected error was encountered trying to convert the configuration."]>>

\* what Config.Get stores into config
GetModel(raw) ==
    IF raw.decodable
    THEN [AccountId |-> raw.AccountId, AuthToken |-> raw.AuthToken, BaseUrl |-> raw.BaseUrl]
    ELSE ZeroModel

HasError(diags) == \E i \in 1..Len(diags) : diags[i].severity = "error"

UnknownAccountIdError ==
    AttributeError("account_id", "Unknown hosting.de API account ID",
        "The provider cannot create the hosting.de API client as there is an unknown configuration value for the hosting.de API account ID. Either target apply the source of the value first, set the value statically in the configuration, or use the HOSTINGDE_ACCOUNT_ID environment variable.")

UnknownAuthTokenError ==
    AttributeError("auth_token", "Unknown hosting.de API auth token",
        "The provider cannot create the hosting.de API client as there is an unknown configuration value for the hosting.de API auth token. Either target apply the source of the value first, set the value statically in the configuration, or use the HOSTINGDE_AUTH_TOKEN environment variable.")

MissingAuthTokenError ==
    AttributeError("auth_token", "Missing hosting.de API auth token",
        "The provider cannot create the hosting.de API client as there is a missing or empty value for the hosting.de API auth token. Set the auth_token value in the configuration or use the HOSTINGDE_AUTH_TOKEN environment variable. If either is already set, ensure the value is not empty.")

\* faulty variant: the early return is missing
ReturnIfError_Never(diags, next) == next

\* if resp.Diagnostics.HasError() { return }
ReturnIfError(diags, next) == IF HasError(diags) THEN "done" ELSE next

---------------------------------------------------------------------------
(* The response and the client *)

NoClient == [nil |-> TRUE, accountId |-> "", authToken |-> "", baseUrl |-> ""]

\* NewClient captures the three values it is given
NewClient(a, t, b) == [nil |-> FALSE, accountId |-> a, authToken |-> t, baseUrl |-> b]

\* the response the host hands to an invocation
EmptyResponse == [Diagnostics |-> <<>>, DataSourceData |-> NoClient, ResourceData |-> NoClient]

Undeclared == "<undeclared>"

---------------------------------------------------------------------------
(* Logging (tflog) *)

MaskValue == "***"

EmptyContext == [fields |-> {}, masked |-> {}]

\* tflog.SetField: the key's earlier value, if any, is replaced
SetField(c, key, value) ==
    [c EXCEPT !.fields = {f \in c.fields : f[1] # key} \cup {<<key, value>>}]

\* tflog.MaskFieldValuesWithFieldKeys
MaskFieldValuesWithFieldKeys(c, key) == [c EXCEPT !.masked = c.masked \cup {key}]

\* a log record: the context's fields and the call's own, the masked keys' values replaced
LogRecord(c, level, msg, additional) ==
    [level |-> level, msg |-> msg,
     fields |-> {<<f[1], IF f[1] \in c.masked THEN MaskValue ELSE f[2]>> :
                    f \in {g \in c.fields : \A h \in additional : h[1] # g[1]} \cup additional}]

---------------------------------------------------------------------------
(* Resolution of the three values *)

\* faulty variant: a set environment variable wins over the configuration
ResolveAuthToken_EnvFirst(c, e) ==
    IF Getenv(e, ENV_AUTH_TOKEN) # "" THEN Getenv(e, ENV_AUTH_TOKEN)
    ELSE ValueString(c.AuthToken)

\* faulty variant: a present but empty auth_token falls back to the environment
ResolveAuthToken_EmptyFallsBack(c, e) ==
    IF ~IsNull(c.AuthToken) /\ ValueString(c.AuthToken) # "" THEN ValueString(c.AuthToken)
    ELSE Getenv(e, ENV_AUTH_TOKEN)

\* faulty variant: no default endpoint
DefaultBaseUrl_None(b) == b

\* faulty variant: an unknown base_url is treated as an absent one
ResolveBaseUrl_UnknownAsAbsent(c, e) ==
    LET b == IF c.BaseUrl.state = "known" THEN ValueString(c.BaseUrl)
             ELSE Getenv(e, ENV_BASE_URL)
    IN IF b = "" THEN defaultBaseURL ELSE b

\* account_id := os.Getenv(..); if !config.AccountId.IsNull() { account_id = config.AccountId.ValueString() }
ResolveAccountId(c, e) ==
    IF ~IsNull(c.AccountId) THEN ValueString(c.AccountId) ELSE Getenv(e, ENV_ACCOUNT_ID)

ResolveAuthToken(c, e) ==
    IF ~IsNull(c.AuthToken) THEN ValueString(c.AuthToken) ELSE Getenv(e, ENV_AUTH_TOKEN)

\* if base_url == "" { base_url = defaultBaseURL }
DefaultBaseUrl(b) == IF b = "" THEN defaultBaseURL ELSE b

ResolveBaseUrl(c, e) ==
    DefaultBaseUrl(IF ~IsNull(c.BaseUrl) THEN ValueString(c.BaseUrl) ELSE Getenv(e, ENV_BASE_URL))

---------------------------------------------------------------------------
(* Configure, step by step *)

\* faulty variant: the response of the earlier invocation is used again
Configure_Begin_KeepsResponse(C, E) ==
    /\ pc = "idle"
    /\ \E r \in C, e \in E : req' = r /\ env' = e
    /\ config' = ZeroModel
    /\ resp' = resp
    /\ account_id' = Undeclared
    /\ auth_token' = Undeclared
    /\ base_url' = Undeclared
    /\ ctx' = EmptyContext
    /\ logs' = <<>>
    /\ newClientCalls' = <<>>
    /\ pc' = "get"
    /\ UNCHANGED first

\* an invocation of Configure with a request and an environment
Configure_Begin(C, E) ==
    /\ pc = "idle"
    /\ \E r \in C, e \in E : req' = r /\ env' = e
    /\ config' = ZeroModel
    /\ resp' = EmptyResponse
    /\ account_id' = Undeclared
    /\ auth_token' = Undeclared
    /\ base_url' = Undeclared
    /\ ctx' = EmptyContext
    /\ logs' = <<>>
    /\ newClientCalls' = <<>>
    /\ pc' = "get"
    /\ UNCHANGED first

\* lines 65-72
Configure_Get ==
    /\ pc = "get"
    /\ logs' = Append(logs, LogRecord(ctx, "info", "Configuring hosting.de client", {}))
    /\ config' = GetModel(req.Config)
    /\ resp' = [resp EXCEPT !.Diagnostics = resp.Diagnostics \o GetDiags(req.Config)]
    /\ pc' = ReturnIfError(resp'.Diagnostics, "guard")
    /\ UNCHANGED <<req, env, account_id, auth_token, base_url, ctx, newClientCalls, first>>

\* faulty variant: the second check is an else-branch of the first
UnknownDiags_FirstOnly(c) ==
    IF IsUnknown(c.AccountId) THEN <<UnknownAccountIdError>>
    ELSE IF IsUnknown(c.AuthToken) THEN <<UnknownAuthTokenError>>
    ELSE <<>>

\* lines 76-96
UnknownDiags(c) ==
    (IF IsUnknown(c.AccountId) THEN <<UnknownAccountIdError>> ELSE <<>>)
        \o (IF IsUnknown(c.AuthToken) THEN <<UnknownAuthTokenError>> ELSE <<>>)

\* faulty variant: Configure goes on to resolve after an unknown-value error
Configure_UnknownGuard_NoReturn ==
    /\ pc = "guard"
    /\ resp' = [resp EXCEPT !.Diagnostics = resp.Diagnostics \o UnknownDiags(config)]
    /\ pc' = "resolve"
    /\ UNCHANGED <<req, env, config, account_id, auth_token, base_url, ctx, logs,
                   newClientCalls, first>>

Configure_UnknownGuard ==
    /\ pc = "guard"
    /\ resp' = [resp EXCEPT !.Diagnostics = resp.Diagnostics \o UnknownDiags(config)]
    /\ pc' = ReturnIfError(resp'.Diagnostics, "resolve")
    /\ UNCHANGED <<req, env, config, account_id, auth_token, base_url, ctx, logs,
                   newClientCalls, first>>

\* lines 101-120
Configure_Resolve ==
    /\ pc = "resolve"
    /\ account_id' = ResolveAccountId(config, env)
    /\ auth_token' = ResolveAuthToken(config, env)
    /\ base_url' = ResolveBaseUrl(config, env)
    /\ pc' = "validate"
    /\ UNCHANGED <<req, env, config, resp, ctx, logs, newClientCalls, first>>

\* faulty variant: the empty token is not checked
MissingDiags_Never(token) == <<>>

\* lines 124-136
MissingDiags(token) == IF token = "" THEN <<MissingAuthTokenError>> ELSE <<>>

Configure_Validate ==
    /\ pc = "validate"
    /\ resp' = [resp EXCEPT !.Diagnostics = resp.Diagnostics \o MissingDiags(auth_token)]
    /\ pc' = ReturnIfError(resp'.Diagnostics, "log")
    /\ UNCHANGED <<req, env, config, account_id, auth_token, base_url, ctx, logs,
                   newClientCalls, first>>

\* faulty variant: the auth token field is not masked
LogContext_NoMask(c, a, t, b) ==
    SetField(SetField(SetField(c, "hostingde_account_id", a),
                      "hostingde_auth_token", t),
             "hostingde_base_url", b)

\* lines 138-141
LogContext(c, a, t, b) ==
    MaskFieldValuesWithFieldKeys(
        SetField(SetField(SetField(c, "hostingde_account_id", a),
                          "hostingde_auth_token", t),
                 "hostingde_base_url", b),
        "hostingde_auth_token")

\* lines 138-143
Configure_SetLogFields ==
    /\ pc = "log"
    /\ ctx' = LogContext(ctx, account_id, auth_token, base_url)
    /\ logs' = Append(logs, LogRecord(ctx', "debug", "Creating hosting.de client", {}))
    /\ pc' = "client"
    /\ UNCHANGED <<req, env, config, resp, account_id, auth_token, base_url,
                   newClientCalls, first>>

\* lines 146-153
Configure_NewClient ==
    /\ pc = "client"
    /\ newClientCalls' = Append(newClientCalls, <<account_id, auth_token, base_url>>)
    /\ LET client == NewClient(account_id, auth_token, base_url)
       IN resp' = [resp EXCEPT !.DataSourceData = client, !.ResourceData = client]
    /\ logs' = Append(logs, LogRecord(ctx, "info", "Configured hosting.de client",
                                      {<<"success", "true">>}))
    /\ pc' = "done"
    /\ UNCHANGED <<req, env, config, account_id, auth_token, base_url, ctx, first>>

\* what an invocation leaves to its caller and to the log sink
Outcome ==
    [Diagnostics |-> resp.Diagnostics, DataSourceData |-> resp.DataSourceData,
     ResourceData |-> resp.ResourceData, newClientCalls |-> newClientCalls, logs |-> logs]

\* before the first request: the zero ConfigureRequest
NoRequest == [Config |-> RawConfig(FALSE, StringNull, StringNull, StringNull)]

NoInvocation ==
    [called |-> FALSE, req |-> NoRequest, env |-> [n \in EnvNames |-> EnvUnset],
     outcome |-> [Diagnostics |-> <<>>, DataSourceData |-> NoClient,
                  ResourceData |-> NoClient, newClientCalls |-> <<>>, logs |-> <<>>]]

\* Configure returns to the host
Configure_Return ==
    /\ pc = "done"
    /\ pc' = "idle"
    /\ UNCHANGED <<req, env, config, resp, account_id, auth_token, base_url, ctx, logs,
                   newClientCalls, first>>

\* Configure returns to the host; the run's first invocation is kept for comparison
Configure_ReturnRecorded ==
    /\ pc = "done"
    /\ pc' = "idle"
    /\ first' = IF first.called THEN first
                ELSE [called |-> TRUE, req |-> req, env |-> env, outcome |-> Outcome]
    /\ UNCHANGED <<req, env, config, resp, account_id, auth_token, base_url, ctx, logs,
                   newClientCalls>>

Requests(C) == {[Config |-> c] : c \in C}

Init ==
    /\ pc = "idle"
    /\ req = NoRequest
    /\ env = [n \in EnvNames |-> EnvUnset]
    /\ config = ZeroModel
    /\ resp = EmptyResponse
    /\ account_id = Undeclared
    /\ auth_token = Undeclared
    /\ base_url = Undeclared
    /\ ctx = EmptyContext
    /\ logs = <<>>
    /\ newClientCalls = <<>>
    /\ first = NoInvocation

Steps ==
    \/ Configure_Get
    \/ Configure_UnknownGuard
    \/ Configure_Resolve
    \/ Configure_Validate
    \/ Configure_SetLogFields
    \/ Configure_NewClient

Next ==
    \/ Configure_Begin(Requests(Configs), Envs)
    \/ Steps
    \/ Configure_Return

Spec == Init /\ [][Next]_vars

\* repeated invocations, the first one kept for comparison with the later ones
NextRepeat ==
    \/ Configure_Begin(Requests(RepeatConfigs), RepeatEnvs)
    \/ Steps
    \/ Configure_ReturnRecorded

SpecRepeat == Init /\ [][NextRepeat]_vars

---------------------------------------------------------------------------
(* Vocabulary of the properties: the inputs of the invocation and what it *)
(* reported, read off the request, the environment and the response       *)

Cfg == req.Config
Done == pc = "done"
Errors == {i \in 1..Len(resp.Diagnostics) : resp.Diagnostics[i].severity = "error"}
Succeeded == Done /\ Errors = {}
Published == ~resp.DataSourceData.nil \/ ~resp.ResourceData.nil

DefaultEndpoint == "https://secure.hosting.de/api/dns/v1/json"

EnvValue(name) == IF env[name].set THEN env[name].value ELSE ""

\* the value the precedence rule gives an attribute: the configuration's when
\* it is present (an unknown one has no string: ""), else the environment's
Precedence(attr, name) ==
    CASE attr.state = "null" -> EnvValue(name)
      [] attr.state = "known" -> attr.value
      [] OTHER -> ""

HasDiag(p, summary) ==
    \E i \in Errors : resp.Diagnostics[i].path = p /\ resp.Diagnostics[i].summary = summary

UnknownAccountReported == HasDiag("account_id", "Unknown hosting.de API account ID")
UnknownTokenReported == HasDiag("auth_token", "Unknown hosting.de API auth token")
MissingTokenReported == HasDiag("auth_token", "Missing hosting.de API auth token")

NothingPublished ==
    resp.DataSourceData.nil /\ resp.ResourceData.nil /\ newClientCalls = <<>>

OnlyTokenInEnv ==
    /\ ~env[ENV_ACCOUNT_ID].set
    /\ ~env[ENV_BASE_URL].set
    /\ env[ENV_AUTH_TOKEN].set /\ env[ENV_AUTH_TOKEN].value # ""

ConfigAbsent ==
    /\ Cfg.decodable
    /\ Cfg.AccountId.state = "null"
    /\ Cfg.AuthToken.state = "null"
    /\ Cfg.BaseUrl.state = "null"

---------------------------------------------------------------------------
\* C1: whenever Configure succeeds, each value handed to NewClient is the
\* configuration's value if the attribute is present and the environment
\* variable's value only if it is absent (an empty base URL then being
\* replaced by the default endpoint); with the configuration absent and only
\* HOSTINGDE_AUTH_TOKEN set, Configure succeeds with an empty account id, the
\* environment's token and the default endpoint.
C1_ConfigOverridesEnv ==
    /\ Succeeded =>
        /\ Len(newClientCalls) = 1
        /\ newClientCalls[1][1] = Precedence(Cfg.AccountId, ENV_ACCOUNT_ID)
        /\ newClientCalls[1][2] = Precedence(Cfg.AuthToken, ENV_AUTH_TOKEN)
        /\ newClientCalls[1][3] =
              IF Precedence(Cfg.BaseUrl, ENV_BASE_URL) = "" THEN DefaultEndpoint
              ELSE Precedence(Cfg.BaseUrl, ENV_BASE_URL)
    /\ Done /\ ConfigAbsent /\ OnlyTokenInEnv =>
        /\ Errors = {}
        /\ newClientCalls = <<<<"", env[ENV_AUTH_TOKEN].value, DefaultEndpoint>>>>

\* a successful invocation whose three attributes are present and whose three
\* variables are set to other, non-empty values
C1_Witness ==
    /\ Succeeded
    /\ \A n \in EnvNames : env[n].set /\ env[n].value # ""
    /\ Cfg.AccountId.state = "known" /\ Cfg.BaseUrl.state = "known"
    /\ Cfg.AuthToken.state = "known"
    /\ newClientCalls = <<<<Cfg.AccountId.value, Cfg.AuthToken.value, Cfg.BaseUrl.value>>>>
    /\ Cfg.BaseUrl.value # ""

\* C2: whenever Configure publishes a client, the auth token and the base URL
\* passed to NewClient are non-empty strings; the account id may be empty.
C2_SuccessNonEmpty ==
    (Succeeded \/ Published) =>
        /\ newClientCalls # <<>>
        /\ \A i \in 1..Len(newClientCalls) :
              /\ newClientCalls[i][2] \notin {"", Undeclared}
              /\ newClientCalls[i][3] \notin {"", Undeclared}
        /\ resp.ResourceData.authToken # "" /\ resp.ResourceData.baseUrl # ""
        /\ resp.DataSourceData.authToken # "" /\ resp.DataSourceData.baseUrl # ""

\* a client published with an empty account id
C2_Witness ==
    /\ Succeeded /\ Published
    /\ newClientCalls[1][1] = ""
    /\ resp.ResourceData.accountId = ""

\* C3: a client is published iff the invocation ends with no error diagnostic:
\* once an error diagnostic is appended both slots stay unset and NewClient is
\* never called; an error-free invocation sets both slots to the one client
\* built from the resolved triple.
C3_ClientIffNoError ==
    /\ Errors # {} => NothingPublished
    /\ Succeeded =>
        /\ newClientCalls = <<<<account_id, auth_token, base_url>>>>
        /\ ~resp.ResourceData.nil
        /\ resp.DataSourceData = resp.ResourceData
        /\ resp.ResourceData.accountId = account_id
        /\ resp.ResourceData.authToken = auth_token
        /\ resp.ResourceData.baseUrl = base_url
    /\ pc \notin {"done", "idle"} => NothingPublished

\* an invocation that ended with two error diagnostics and no client
C3_Witness ==
    /\ Done
    /\ Cardinality(Errors) = 2
    /\ NothingPublished

C5_UnknownFails ==
    Done /\ Cfg.decodable =>
        /\ Cfg.AccountId.state = "unknown" => UnknownAccountReported /\ NothingPublished
        /\ Cfg.AuthToken.state = "unknown" => UnknownTokenReported /\ NothingPublished

\* both unknown, both reported, with every variable set
C5_Witness ==
    /\ Done
    /\ Cfg.AccountId.state = "unknown" /\ Cfg.AuthToken.state = "unknown"
    /\ UnknownAccountReported /\ UnknownTokenReported
    /\ \A n \in EnvNames : env[n].set /\ env[n].value # ""
    /\ NothingPublished

\* C6 as claimed: the final diagnostics hold one error for every failing
\* condition among account_id unknown, auth_token unknown and resolved auth
\* token empty.
C6_AllFailuresReported ==
    Done /\ Cfg.decodable =>
        /\ Cfg.AccountId.state = "unknown" => UnknownAccountReported
        /\ Cfg.AuthToken.state = "unknown" => UnknownTokenReported
        /\ (Cfg.AuthToken.state # "unknown" /\ Precedence(Cfg.AuthToken, ENV_AUTH_TOKEN) = "")
              => MissingTokenReported

\* C6 as amended: the two unknown-value errors are collected together, and
\* Configure returns when either was reported; the missing-auth-token error is
\* reported only when neither attribute is unknown and the resolved token is
\* empty. The diagnostics hold exactly one error for each condition that holds.
C6_FailuresReportedPerStage ==
    Done /\ Cfg.decodable =>
        LET ua == Cfg.AccountId.state = "unknown"
            ut == Cfg.AuthToken.state = "unknown"
            mt == ~ua /\ ~ut /\ Precedence(Cfg.AuthToken, ENV_AUTH_TOKEN) = ""
        IN /\ UnknownAccountReported <=> ua
           /\ UnknownTokenReported <=> ut
           /\ MissingTokenReported <=> mt
           /\ Cardinality(Errors) =
                (IF ua THEN 1 ELSE 0) + (IF ut THEN 1 ELSE 0) + (IF mt THEN 1 ELSE 0)
           /\ Len(resp.Diagnostics) = Cardinality(Errors)

\* account_id unknown, auth_token absent, HOSTINGDE_AUTH_TOKEN empty: the
\* unknown-value error alone
C6_Witness ==
    /\ Done
    /\ Cfg.AccountId.state = "unknown"
    /\ Cfg.AuthToken.state = "null"
    /\ env[ENV_AUTH_TOKEN] = [set |-> TRUE, value |-> ""]
    /\ UnknownAccountReported
    /\ ~MissingTokenReported
    /\ Cardinality(Errors) = 1

\* C7: when the base URL resolves to empty from both sources, a successful
\* Configure passes exactly https://secure.hosting.de/api/dns/v1/json to
\* NewClient, and only then: a non-empty resolved base URL is passed unchanged.
C7_DefaultEndpoint ==
    Succeeded =>
        LET resolved == Precedence(Cfg.BaseUrl, ENV_BASE_URL)
            passed == newClientCalls[Len(newClientCalls)][3]
        IN /\ newClientCalls # <<>>
           /\ resolved = "" => passed = "https://secure.hosting.de/api/dns/v1/json"
           /\ resolved # "" => passed = resolved
           /\ passed = "https://secure.hosting.de/api/dns/v1/json" => resolved = ""
           /\ resp.ResourceData.baseUrl = passed

\* a present, empty base_url and an empty HOSTINGDE_BASE_URL: the default
C7_Witness ==
    /\ Succeeded
    /\ Cfg.BaseUrl = [state |-> "known", value |-> ""]
    /\ env[ENV_BASE_URL] = [set |-> TRUE, value |-> ""]
    /\ newClientCalls[1][3] = "https://secure.hosting.de/api/dns/v1/json"

---------------------------------------------------------------------------
(* Two invocations of one run: the first one and the current one *)

\* what of the auth token the outcome may depend on: whether it is unknown,
\* resolves to empty or resolves to a token
TokenClass(c, e) ==
    CASE ~c.decodable -> "none"
      [] c.AuthToken.state = "unknown" -> "unknown"
      [] c.AuthToken.state = "known" -> IF c.AuthToken.value = "" THEN "empty" ELSE "token"
      [] OTHER -> IF e[ENV_AUTH_TOKEN].set /\ e[ENV_AUTH_TOKEN].value # ""
                  THEN "token" ELSE "empty"

\* the first invocation and the current one differ at most in the token
SameButToken ==
    /\ first.called
    /\ first.req.Config.decodable = Cfg.decodable
    /\ first.req.Config.AccountId = Cfg.AccountId
    /\ first.req.Config.BaseUrl = Cfg.BaseUrl
    /\ first.env[ENV_ACCOUNT_ID] = env[ENV_ACCOUNT_ID]
    /\ first.env[ENV_BASE_URL] = env[ENV_BASE_URL]
    /\ TokenClass(first.req.Config, first.env) = TokenClass(Cfg, env)

\* the token values the invocation was given
Secrets == {Cfg.AuthToken.value, env[ENV_AUTH_TOKEN].value} \ {""}

\* C8: no log record and no diagnostic of an invocation, successful or failed,
\* holds the auth token: every emitted hostingde_auth_token field is masked,
\* no field, message, summary or detail is a token the invocation was given,
\* and records and diagnostics are the same whatever the token's value.
C8_TokenRedacted ==
    /\ \A i \in 1..Len(logs) : \A f \in logs[i].fields :
          /\ f[1] = "hostingde_auth_token" => f[2] = "***"
          /\ f[2] \notin Secrets
    /\ \A i \in 1..Len(logs) : logs[i].msg \notin Secrets
    /\ \A i \in 1..Len(resp.Diagnostics) :
          /\ resp.Diagnostics[i].summary \notin Secrets
          /\ resp.Diagnostics[i].detail \notin Secrets
    /\ Done /\ SameButToken =>
          /\ logs = first.outcome.logs
          /\ resp.Diagnostics = first.outcome.Diagnostics

\* two successful invocations with different tokens and the same three records,
\* the last two carrying the masked field
C8_Witness ==
    /\ Succeeded /\ SameButToken
    /\ first.outcome.newClientCalls # <<>>
    /\ first.outcome.newClientCalls[1][2] # newClientCalls[1][2]
    /\ Len(logs) = 3
    /\ <<"hostingde_auth_token", "***">> \in logs[2].fields
    /\ <<"hostingde_auth_token", "***">> \in logs[3].fields
    /\ logs = first.outcome.logs

\* C9: Configure keeps no state between invocations: an invocation with the
\* request and environment of the run's first one ends with the same
\* diagnostics, client, NewClient call and log records, whatever was invoked in
\* between; a failed invocation exposes no client of an earlier one.
C9_Stateless ==
    /\ (Done /\ first.called /\ first.req = req /\ first.env = env) =>
          /\ resp.Diagnostics = first.outcome.Diagnostics
          /\ resp.DataSourceData = first.outcome.DataSourceData
          /\ resp.ResourceData = first.outcome.ResourceData
          /\ newClientCalls = first.outcome.newClientCalls
          /\ logs = first.outcome.logs
    /\ (Done /\ Errors # {}) => resp.DataSourceData.nil /\ resp.ResourceData.nil

\* a failed invocation after a successful first one
C9_Witness ==
    /\ Done
    /\ first.called
    /\ ~first.outcome.ResourceData.nil
    /\ Errors # {}
    /\ resp.ResourceData.nil

=============================================================================
